---- MODULE Spec2Model ----
(***************************************************************************)
(* Test user provisioning of the Gen1 test script (gen1-test-script.ts):   *)
(* the credential generators, createTestUser and runAllTests, executed by  *)
(* several CI runs against one identity-provider user pool; and the        *)
(* credentials check of the Gen2 test script.                              *)
(*                                                                         *)
(* Text that the program builds (usernames, emails, passwords) is a        *)
(* sequence of one-character strings, so that formatting, padding and      *)
(* replace() are computed rather than assumed.  Fixed console messages are *)
(* plain strings; the leading cross-mark / check-mark glyph of each        *)
(* message is left out because the parser accepts ASCII only.              *)
(***************************************************************************)
EXTENDS Naturals, Integers, Sequences, FiniteSets, TLC

(***************************************************************************)
(* Bounds of the model.                                                    *)
(***************************************************************************)
\* number of CI runs that execute the script concurrently
NumRuns == 2
\* the millisecond clock Date.now() ranges over 0..MaxClock
MaxClock == 1
\* number of successive generateUsername() calls of the property test
MaxCalls == 3
\* longest token passed to generateEmail directly
MaxTokenLen == 2

Runs == 1..NumRuns

\* values webcrypto.getRandomValues(new Uint8Array(2)) may return
UsernameRandomBytes == { <<0, 10>>, <<255, 171>> }

\* values webcrypto.getRandomValues(new Uint8Array(8)) may return
PasswordRandomBytes ==
    { <<0, 25, 26, 51, 52, 61, 62, 255>>, <<7, 7, 7, 7, 7, 7, 7, 7>> }

(***************************************************************************)
(* String helpers (JavaScript semantics).                                  *)
(***************************************************************************)
DecimalDigits == <<"0", "1", "2", "3", "4", "5", "6", "7", "8", "9">>

HexDigits ==
    <<"0", "1", "2", "3", "4", "5", "6", "7", "8", "9",
      "a", "b", "c", "d", "e", "f">>

\* template literal `${timestamp}` : Number -> decimal string
RECURSIVE ToDecimal(_)
ToDecimal(n) ==
    IF n < 10 THEN <<DecimalDigits[n + 1]>>
    ELSE ToDecimal(n \div 10) \o <<DecimalDigits[(n % 10) + 1]>>

\* b.toString(16) : no leading zeros, lowercase
RECURSIVE ToString16(_)
ToString16(b) ==
    IF b < 16 THEN <<HexDigits[b + 1]>>
    ELSE ToString16(b \div 16) \o <<HexDigits[(b % 16) + 1]>>

\* PadStart that adds no padding
PadStart_None(s, targetLength, padChar) == s

\* s.padStart(targetLength, padChar) for a one-character pad string
RECURSIVE PadStart(_, _, _)
PadStart(s, targetLength, padChar) ==
    IF Len(s) >= targetLength THEN s
    ELSE PadStart(<<padChar>> \o s, targetLength, padChar)

\* array.join('') over an array of strings
RECURSIVE Join(_)
Join(parts) ==
    IF parts = <<>> THEN <<>> ELSE Head(parts) \o Join(Tail(parts))

\* s.startsWith(p) at position i (1-based)
MatchesAt(s, p, i) ==
    /\ i + Len(p) - 1 <= Len(s)
    /\ \A k \in 1..Len(p) : s[i + k - 1] = p[k]

\* Replace that finds no occurrence: s is returned as it is
Replace_Noop(s, pattern, replacement) == s

\* s.replace(pattern, replacement) with a string pattern: replaces the first
\* occurrence only, and returns s unchanged when there is none
Replace(s, pattern, replacement) ==
    LET hits == { i \in 1..(Len(s) + 1) : MatchesAt(s, pattern, i) }
    IN  IF hits = {} THEN s
        ELSE LET i == CHOOSE j \in hits : \A k \in hits : j <= k
             IN  SubSeq(s, 1, i - 1) \o replacement
                   \o SubSeq(s, i + Len(pattern), Len(s))

(***************************************************************************)
(* Credential generation helpers.                                          *)
(***************************************************************************)
\* 'ci-test-'
CiTestPrefix == <<"c", "i", "-", "t", "e", "s", "t", "-">>

\* '@test.example.com'
EmailDomain ==
    <<"@", "t", "e", "s", "t", ".", "e", "x", "a", "m", "p", "l", "e",
      ".", "c", "o", "m">>

\* PasswordPrefix with a digit in place of the special character
PasswordPrefix_NoSpecial == <<"C", "i", "T", "e", "s", "t", "1", "2">>

\* 'CiTest1!'
PasswordPrefix == <<"C", "i", "T", "e", "s", "t", "1", "!">>

UpperCase ==
    <<"A", "B", "C", "D", "E", "F", "G", "H", "I", "J", "K", "L", "M",
      "N", "O", "P", "Q", "R", "S", "T", "U", "V", "W", "X", "Y", "Z">>

LowerCase ==
    <<"a", "b", "c", "d", "e", "f", "g", "h", "i", "j", "k", "l", "m",
      "n", "o", "p", "q", "r", "s", "t", "u", "v", "w", "x", "y", "z">>

\* 'ABC...XYZabc...xyz0123456789'
alphanumeric == UpperCase \o LowerCase \o DecimalDigits

\* generateUsername(): timestamp is Date.now(), randomHex the two random bytes
generateUsername(timestamp, randomHex) ==
    LET hex == Join([i \in 1..Len(randomHex) |->
                        PadStart(ToString16(randomHex[i]), 2, "0")])
    IN  CiTestPrefix \o ToDecimal(timestamp) \o <<"-">> \o hex

\* generatePassword indexing the alphabet with the byte itself: a byte past
\* the alphabet's end reads undefined, which join('') writes out
generatePassword_NoModulo(randomBytes) ==
    LET suffix == Join([i \in 1..Len(randomBytes) |->
                      IF randomBytes[i] < Len(alphanumeric)
                      THEN <<alphanumeric[randomBytes[i] + 1]>>
                      ELSE <<"u", "n", "d", "e", "f", "i", "n", "e", "d">>])
    IN  PasswordPrefix \o suffix

\* generatePassword(): randomBytes are the eight random bytes
generatePassword(randomBytes) ==
    LET suffix == [i \in 1..Len(randomBytes) |->
                      alphanumeric[(randomBytes[i] % Len(alphanumeric)) + 1]]
    IN  PasswordPrefix \o suffix

\* generateEmail without the fixed prefix
generateEmail_NoPrefix(uniqueId) == uniqueId \o EmailDomain

\* generateEmail(uniqueId)
generateEmail(uniqueId) == CiTestPrefix \o uniqueId \o EmailDomain

(***************************************************************************)
(* Configuration artifact (amplifyconfiguration.json): a JSON object, here *)
(* a function from the keys it has to their string values.  A key that is  *)
(* absent reads as undefined.                                              *)
(***************************************************************************)
ConfigKeys ==
    {"aws_user_pools_id", "aws_user_pools_web_client_id", "aws_cognito_region"}

\* the value a key has when present and non-empty
ConfiguredValue ==
    [k \in ConfigKeys |->
        CASE k = "aws_user_pools_id" -> "us-east-1_TestPool"
          [] k = "aws_user_pools_web_client_id" -> "test-client-id-123"
          [] k = "aws_cognito_region" -> "us-east-1"]

\* every configuration: each key absent, the empty string, or its value
Configurations ==
    UNION { { [k \in present |-> IF k \in empty THEN "" ELSE ConfiguredValue[k]]
                : empty \in SUBSET present }
            : present \in SUBSET ConfigKeys }

\* the value undefined, which reading an absent key yields
Undefined == "<undefined>"

\* (amplifyconfig as Record<string, unknown>)[key] as string | undefined
ConfigValue(cfg, key) == IF key \in DOMAIN cfg THEN cfg[key] ELSE Undefined

\* !value for a value of type string | undefined
Falsy(value) == value = Undefined \/ value = ""

MsgMissingUserPoolId == "Missing aws_user_pools_id in Amplify configuration"
MsgMissingClientId ==
    "Missing aws_user_pools_web_client_id in Amplify configuration"
MsgMissingRegion == "Missing aws_cognito_region in Amplify configuration"
MsgFailedToCreate == "Failed to create test user:"

\* ConfigError with the pool identifier compared against undefined only, so
\* that the empty string passes the first check
ConfigError_UndefinedOnly(cfg) ==
    LET userPoolId == ConfigValue(cfg, "aws_user_pools_id")
        clientId == ConfigValue(cfg, "aws_user_pools_web_client_id")
        region == ConfigValue(cfg, "aws_cognito_region")
    IN  IF userPoolId = Undefined THEN <<MsgMissingUserPoolId>>
        ELSE IF Falsy(clientId) THEN <<MsgMissingClientId>>
        ELSE IF Falsy(region) THEN <<MsgMissingRegion>>
        ELSE <<>>

\* ConfigError without the check of the client identifier
ConfigError_NoClientCheck(cfg) ==
    LET userPoolId == ConfigValue(cfg, "aws_user_pools_id")
        region == ConfigValue(cfg, "aws_cognito_region")
    IN  IF Falsy(userPoolId) THEN <<MsgMissingUserPoolId>>
        ELSE IF Falsy(region) THEN <<MsgMissingRegion>>
        ELSE <<>>

\* ConfigError without the check of the region
ConfigError_NoRegionCheck(cfg) ==
    LET userPoolId == ConfigValue(cfg, "aws_user_pools_id")
        clientId == ConfigValue(cfg, "aws_user_pools_web_client_id")
    IN  IF Falsy(userPoolId) THEN <<MsgMissingUserPoolId>>
        ELSE IF Falsy(clientId) THEN <<MsgMissingClientId>>
        ELSE <<>>

\* ConfigError with the client identifier checked ahead of the pool identifier
ConfigError_ClientFirst(cfg) ==
    LET userPoolId == ConfigValue(cfg, "aws_user_pools_id")
        clientId == ConfigValue(cfg, "aws_user_pools_web_client_id")
        region == ConfigValue(cfg, "aws_cognito_region")
    IN  IF Falsy(clientId) THEN <<MsgMissingClientId>>
        ELSE IF Falsy(userPoolId) THEN <<MsgMissingUserPoolId>>
        ELSE IF Falsy(region) THEN <<MsgMissingRegion>>
        ELSE <<>>

\* step 2 of createTestUser: the console.error arguments of the first check
\* that fails, or the empty sequence when every check passes
ConfigError(cfg) ==
    LET userPoolId == ConfigValue(cfg, "aws_user_pools_id")
        clientId == ConfigValue(cfg, "aws_user_pools_web_client_id")
        region == ConfigValue(cfg, "aws_cognito_region")
    IN  IF Falsy(userPoolId) THEN <<MsgMissingUserPoolId>>
        ELSE IF Falsy(clientId) THEN <<MsgMissingClientId>>
        ELSE IF Falsy(region) THEN <<MsgMissingRegion>>
        ELSE <<>>

(***************************************************************************)
(* Identity provider.                                                      *)
(***************************************************************************)
ErrUsernameExists ==
    [name |-> "UsernameExistsException", message |-> "User already exists"]
ErrTooManyRequests ==
    [name |-> "TooManyRequestsException", message |-> "Rate exceeded"]
ErrCannotConfirm ==
    [name |-> "NotAuthorizedException", message |-> "User cannot be confirmed"]

\* errors with which the provider may reject SignUp(username)
SignUpErrors(users, username) ==
    {ErrTooManyRequests}
      \cup (IF username \in DOMAIN users THEN {ErrUsernameExists} ELSE {})

\* errors with which the provider may reject AdminConfirmSignUp
ConfirmErrors == {ErrCannotConfirm}

\* the pool after a user is registered / confirmed
WithUser(users, username, status) ==
    [u \in DOMAIN users \cup {username} |->
        IF u = username THEN status ELSE users[u]]

\* new SignUpCommand({...})
SignUpInput(clientId, email, password) ==
    [ClientId |-> clientId, Username |-> email, Password |-> password,
     UserAttributes |-> <<[Name |-> "email", Value |-> email]>>]

\* AdminConfirmSignUpInput with the generated 'ci-test-...' username (the
\* email without its domain) as Username
AdminConfirmSignUpInput_GeneratedUsername(userPoolId, email) ==
    [UserPoolId |-> userPoolId,
     Username |-> SubSeq(email, 1, Len(email) - Len(EmailDomain))]

\* new AdminConfirmSignUpCommand({...})
AdminConfirmSignUpInput(userPoolId, email) ==
    [UserPoolId |-> userPoolId, Username |-> email]

\* cognitoClient.send(command): the call is recorded and is pending until the
\* provider settles it
NoError == [name |-> "", message |-> ""]

Send(history, op, input) ==
    Append(history,
           [op |-> op, input |-> input, status |-> "pending", error |-> NoError])

\* the pending call (the last one) resolves ("ok") or rejects ("failed") with
\* the provider's error
Settle(history, status, error) ==
    [history EXCEPT ![Len(history)].status = status,
                    ![Len(history)].error = error]

\* the value createTestUser returns
Credentials(email, password) == [username |-> email, password |-> password]

(***************************************************************************)
(* State.                                                                  *)
(***************************************************************************)
VARIABLES
    config,      \* the configuration artifact every run imports
    now,         \* Date.now()
    pool,        \* provider's user pool: username -> UNCONFIRMED | CONFIRMED
    pc,          \* where each run is in runAllTests / createTestUser
    locals,      \* createTestUser's uniqueId, password, email (<<>> if unset)
    calls,       \* each run's cognitoClient.send() calls, in order
    errlog,      \* each run's console.error calls (argument lists)
    out,         \* each run's console.log calls (argument lists)
    exitStatus,  \* each run's process.exit calls (status codes)
    returned,    \* values createTestUser returned to its caller
    testUser,    \* values passed to createTestFunctions
    generated,   \* usernames returned by successive generateUsername() calls
    steps,       \* each run's calls into the test utilities, in order
    helperCall,  \* a direct call of one credential helper and its outcome
    TEST_USER    \* the Gen2 script's credentials constant

vars ==
    <<config, TEST_USER, now, pool, pc, locals, calls, errlog, out, exitStatus,
      returned, testUser, generated,
                   steps, helperCall>>

\* no helper is being called directly
NoHelperCall == [fn |-> "none", args |-> <<>>, outcome |-> <<>>]

\* TEST_USER as the Gen2 script's source defines it
PlaceholderUser ==
    [username |-> "YOUR_USERNAME_HERE", password |-> "YOUR_PASSWORD_HERE"]

NoLocals == [uniqueId |-> <<>>, password |-> <<>>, email |-> <<>>]

Init ==
    /\ config \in Configurations
    /\ now = 0
    /\ pool = <<>>
    /\ pc = [r \in Runs |-> "start"]
    /\ locals = [r \in Runs |-> NoLocals]
    /\ calls = [r \in Runs |-> <<>>]
    /\ errlog = [r \in Runs |-> <<>>]
    /\ out = [r \in Runs |-> <<>>]
    /\ exitStatus = [r \in Runs |-> <<>>]
    /\ returned = [r \in Runs |-> <<>>]
    /\ testUser = [r \in Runs |-> <<>>]
    /\ generated = <<>>
    /\ steps = [r \in Runs |-> <<>>]
    /\ helperCall = NoHelperCall
    /\ TEST_USER = PlaceholderUser

(***************************************************************************)
(* Actions.                                                                *)
(***************************************************************************)
\* the wall clock advances by a millisecond
Tick ==
    /\ now < MaxClock
    /\ now' = now + 1
    /\ UNCHANGED <<config, TEST_USER, pool, pc, locals, calls, errlog, out, exitStatus,
                   returned, testUser, generated,
                   steps, helperCall>>

\* Catch logging the error's name in place of its message
Catch_LogsName(r, error) ==
    /\ errlog' = [errlog EXCEPT ![r] = Append(@, <<MsgFailedToCreate, error.name>>)]
    /\ exitStatus' = [exitStatus EXCEPT ![r] = Append(@, 1)]
    /\ pc' = [pc EXCEPT ![r] = "exited"]

\* Catch without process.exit: the error is logged and the run goes no
\* further
Catch_NoExit(r, error) ==
    /\ errlog' = [errlog EXCEPT ![r] = Append(@, <<MsgFailedToCreate, error.message>>)]
    /\ pc' = [pc EXCEPT ![r] = "caught"]
    /\ UNCHANGED exitStatus

\* the catch block of createTestUser: console.error(marker, error.message)
\* and process.exit(1)
Catch(r, error) ==
    /\ errlog' = [errlog EXCEPT ![r] = Append(@, <<MsgFailedToCreate, error.message>>)]
    /\ exitStatus' = [exitStatus EXCEPT ![r] = Append(@, 1)]
    /\ pc' = [pc EXCEPT ![r] = "exited"]

\* CreateTestUser with the first send() not awaited: AdminConfirmSignUp is
\* sent while SignUp is still pending
CreateTestUser_NoAwait(r) ==
    /\ pc[r] = "start"
    /\ IF ConfigError(config) # <<>>
       THEN /\ errlog' = [errlog EXCEPT ![r] = Append(@, ConfigError(config))]
            /\ exitStatus' = [exitStatus EXCEPT ![r] = Append(@, 1)]
            /\ pc' = [pc EXCEPT ![r] = "exited"]
            /\ out' = [out EXCEPT ![r] = Append(@, <<"Starting Gen1 Test Script">>)]
            /\ UNCHANGED <<locals, calls>>
       ELSE \E randomHex \in UsernameRandomBytes, randomBytes \in PasswordRandomBytes :
              LET uniqueId == Replace(generateUsername(now, randomHex), CiTestPrefix, <<>>)
                  password == generatePassword(randomBytes)
                  email == generateEmail(uniqueId)
              IN  /\ locals' = [locals EXCEPT ![r] =
                        [uniqueId |-> uniqueId, password |-> password, email |-> email]]
                  /\ out' = [out EXCEPT ![r] =
                        @ \o << <<"Starting Gen1 Test Script">>,
                                <<"Creating test user:", email>>,
                                <<"SignUp succeeded">> >>]
                  /\ calls' = [calls EXCEPT ![r] =
                        Send(Send(@, "SignUp",
                                  SignUpInput(ConfigValue(config, "aws_user_pools_web_client_id"),
                                              email, password)),
                             "AdminConfirmSignUp",
                             AdminConfirmSignUpInput(ConfigValue(config, "aws_user_pools_id"),
                                                     email))]
                  /\ pc' = [pc EXCEPT ![r] = "awaitConfirm"]
                  /\ UNCHANGED <<errlog, exitStatus>>
    /\ UNCHANGED <<config, TEST_USER, now, pool, returned, testUser, generated,
                   steps, helperCall>>

\* runAllTests up to its await of createTestUser, and createTestUser up to
\* its first await: validation, credential generation, SignUp sent
CreateTestUser(r) ==
    /\ pc[r] = "start"
    /\ IF ConfigError(config) # <<>>
       THEN /\ errlog' = [errlog EXCEPT ![r] = Append(@, ConfigError(config))]
            /\ exitStatus' = [exitStatus EXCEPT ![r] = Append(@, 1)]
            /\ pc' = [pc EXCEPT ![r] = "exited"]
            /\ out' = [out EXCEPT ![r] = Append(@, <<"Starting Gen1 Test Script">>)]
            /\ UNCHANGED <<locals, calls>>
       ELSE \E randomHex \in UsernameRandomBytes, randomBytes \in PasswordRandomBytes :
              LET uniqueId == Replace(generateUsername(now, randomHex), CiTestPrefix, <<>>)
                  password == generatePassword(randomBytes)
                  email == generateEmail(uniqueId)
              IN  /\ locals' = [locals EXCEPT ![r] =
                        [uniqueId |-> uniqueId, password |-> password, email |-> email]]
                  /\ out' = [out EXCEPT ![r] =
                        @ \o << <<"Starting Gen1 Test Script">>,
                                <<"Creating test user:", email>> >>]
                  /\ calls' = [calls EXCEPT ![r] =
                        Send(@, "SignUp",
                             SignUpInput(ConfigValue(config, "aws_user_pools_web_client_id"),
                                         email, password))]
                  /\ pc' = [pc EXCEPT ![r] = "awaitSignUp"]
                  /\ UNCHANGED <<errlog, exitStatus>>
    /\ UNCHANGED <<config, TEST_USER, now, pool, returned, testUser, generated,
                   steps, helperCall>>

\* the provider registers the user; createTestUser resumes after its first
\* await and sends AdminConfirmSignUp
SignUpSucceeds(r) ==
    /\ pc[r] = "awaitSignUp"
    /\ calls[r][Len(calls[r])].input.Username \notin DOMAIN pool
    /\ pool' = WithUser(pool, calls[r][Len(calls[r])].input.Username, "UNCONFIRMED")
    /\ out' = [out EXCEPT ![r] = Append(@, <<"SignUp succeeded">>)]
    /\ calls' = [calls EXCEPT ![r] =
          Send(Settle(@, "ok", NoError), "AdminConfirmSignUp",
               AdminConfirmSignUpInput(ConfigValue(config, "aws_user_pools_id"),
                                       locals[r].email))]
    /\ pc' = [pc EXCEPT ![r] = "awaitConfirm"]
    /\ UNCHANGED <<config, TEST_USER, now, locals, errlog, exitStatus, returned, testUser,
                   generated,
                   steps, helperCall>>

\* SignUpFails with the error logged but not fatal: AdminConfirmSignUp is
\* sent all the same
SignUpFails_Continues(r, error) ==
    /\ pc[r] = "awaitSignUp"
    /\ error \in SignUpErrors(pool, calls[r][Len(calls[r])].input.Username)
    /\ errlog' = [errlog EXCEPT ![r] = Append(@, <<MsgFailedToCreate, error.message>>)]
    /\ calls' = [calls EXCEPT ![r] =
          Send(Settle(@, "failed", error), "AdminConfirmSignUp",
               AdminConfirmSignUpInput(ConfigValue(config, "aws_user_pools_id"),
                                       locals[r].email))]
    /\ pc' = [pc EXCEPT ![r] = "awaitConfirm"]
    /\ UNCHANGED <<config, TEST_USER, now, pool, locals, out, exitStatus, returned, testUser,
                   generated,
                   steps, helperCall>>

\* the provider rejects SignUp; the catch block runs
SignUpFails(r, error) ==
    /\ pc[r] = "awaitSignUp"
    /\ error \in SignUpErrors(pool, calls[r][Len(calls[r])].input.Username)
    /\ calls' = [calls EXCEPT ![r] = Settle(@, "failed", error)]
    /\ Catch(r, error)
    /\ UNCHANGED <<config, TEST_USER, now, pool, locals, out, returned, testUser, generated,
                   steps, helperCall>>

\* ConfirmSucceeds returning the generated 'ci-test-...' username in place
\* of the email
ConfirmSucceeds_ReturnsUsername(r) ==
    /\ pc[r] = "awaitConfirm"
    /\ calls[r][Len(calls[r])].input.Username \in DOMAIN pool
    /\ pool' = WithUser(pool, calls[r][Len(calls[r])].input.Username, "CONFIRMED")
    /\ out' = [out EXCEPT ![r] = Append(@, <<"AdminConfirmSignUp succeeded">>)]
    /\ calls' = [calls EXCEPT ![r] = Settle(@, "ok", NoError)]
    /\ returned' = [returned EXCEPT ![r] =
          Append(@, Credentials(CiTestPrefix \o locals[r].uniqueId, locals[r].password))]
    /\ pc' = [pc EXCEPT ![r] = "returned"]
    /\ UNCHANGED <<config, TEST_USER, now, locals, errlog, exitStatus, testUser, generated,
                   steps, helperCall>>

\* the provider confirms the user; createTestUser returns the credentials
ConfirmSucceeds(r) ==
    /\ pc[r] = "awaitConfirm"
    /\ calls[r][Len(calls[r])].input.Username \in DOMAIN pool
    /\ pool' = WithUser(pool, calls[r][Len(calls[r])].input.Username, "CONFIRMED")
    /\ out' = [out EXCEPT ![r] = Append(@, <<"AdminConfirmSignUp succeeded">>)]
    /\ calls' = [calls EXCEPT ![r] = Settle(@, "ok", NoError)]
    /\ returned' = [returned EXCEPT ![r] =
          Append(@, Credentials(locals[r].email, locals[r].password))]
    /\ pc' = [pc EXCEPT ![r] = "returned"]
    /\ UNCHANGED <<config, TEST_USER, now, locals, errlog, exitStatus, testUser, generated,
                   steps, helperCall>>

\* ConfirmFails sending AdminConfirmSignUp once more after a rejection
ConfirmFails_Retries(r, error) ==
    /\ pc[r] = "awaitConfirm"
    /\ error \in ConfirmErrors
    /\ calls' = [calls EXCEPT ![r] =
          Send(Settle(@, "failed", error), "AdminConfirmSignUp",
               calls[r][Len(calls[r])].input)]
    /\ UNCHANGED <<config, TEST_USER, now, pool, pc, locals, errlog, out, exitStatus,
                   returned, testUser, generated,
                   steps, helperCall>>

\* ConfirmFails with a compensating call: the catch block deletes the user it
\* registered before it exits
ConfirmFails_DeletesUser(r, error) ==
    /\ pc[r] = "awaitConfirm"
    /\ error \in ConfirmErrors
    /\ calls' = [calls EXCEPT ![r] =
          Append(Settle(@, "failed", error),
                 [op |-> "AdminDeleteUser",
                  input |-> calls[r][Len(calls[r])].input,
                  status |-> "ok", error |-> NoError])]
    /\ pool' = [u \in DOMAIN pool \ {locals[r].email} |-> pool[u]]
    /\ Catch(r, error)
    /\ UNCHANGED <<config, TEST_USER, now, locals, out, returned, testUser, generated,
                   steps, helperCall>>

\* ConfirmFails with a catch block that logs the error and returns the
\* credentials all the same
ConfirmFails_ReturnsCredentials(r, error) ==
    /\ pc[r] = "awaitConfirm"
    /\ error \in ConfirmErrors
    /\ calls' = [calls EXCEPT ![r] = Settle(@, "failed", error)]
    /\ errlog' = [errlog EXCEPT ![r] = Append(@, <<MsgFailedToCreate, error.message>>)]
    /\ returned' = [returned EXCEPT ![r] =
          Append(@, Credentials(locals[r].email, locals[r].password))]
    /\ pc' = [pc EXCEPT ![r] = "returned"]
    /\ UNCHANGED <<config, TEST_USER, now, pool, locals, out, exitStatus, testUser,
                   generated, steps, helperCall>>

\* the provider rejects AdminConfirmSignUp; the catch block runs
ConfirmFails(r, error) ==
    /\ pc[r] = "awaitConfirm"
    /\ error \in ConfirmErrors
    /\ calls' = [calls EXCEPT ![r] = Settle(@, "failed", error)]
    /\ Catch(r, error)
    /\ UNCHANGED <<config, TEST_USER, now, pool, locals, out, returned, testUser, generated,
                   steps, helperCall>>

\* a call into the test utilities that runAllTests awaits: pending until it
\* resolves
Begin(history, step) == Append(history, [step |-> step, status |-> "pending"])

\* a synchronous call into the test utilities
Called(history, step) == Append(history, [step |-> step, status |-> "done"])

\* the awaited call (the last one) resolved
Completed(history) == [history EXCEPT ![Len(history)].status = "done"]

\* runAllTests after createTestUser returned: the credentials are passed to
\* createTestFunctions and the public query tests begin
StartTests(r) ==
    /\ pc[r] = "returned"
    /\ testUser' = [testUser EXCEPT ![r] = Append(@, returned[r][Len(returned[r])])]
    /\ steps' = [steps EXCEPT ![r] =
          Begin(Called(Called(Called(@, "createTestRunner"),
                              "createTestFunctions"),
                       "createTestOrchestrator"),
                "runPublicQueryTests")]
    /\ pc' = [pc EXCEPT ![r] = "publicQueries"]
    /\ UNCHANGED <<config, TEST_USER, now, pool, locals, calls, errlog, out, exitStatus,
                   returned, generated, helperCall>>

\* runPublicQueryTests() resolved; authenticateUser() is called
PublicQueryTestsDone(r) ==
    /\ pc[r] = "publicQueries"
    /\ steps' = [steps EXCEPT ![r] = Begin(Completed(@), "authenticateUser")]
    /\ pc' = [pc EXCEPT ![r] = "authenticate"]
    /\ UNCHANGED <<config, TEST_USER, now, pool, locals, calls, errlog, out, exitStatus,
                   returned, testUser, generated, helperCall>>

\* AuthenticateUserTrue with the two test groups swapped: runStorageTests()
\* is called right after authentication
AuthenticateUserTrue_StorageFirst(r) ==
    /\ pc[r] = "authenticate"
    /\ steps' = [steps EXCEPT ![r] = Begin(Completed(@), "runStorageTests")]
    /\ pc' = [pc EXCEPT ![r] = "storage"]
    /\ UNCHANGED <<config, TEST_USER, now, pool, locals, calls, errlog, out, exitStatus,
                   returned, testUser, generated, helperCall>>

\* authenticateUser() resolved to true; runMutationTests() is called
AuthenticateUserTrue(r) ==
    /\ pc[r] = "authenticate"
    /\ steps' = [steps EXCEPT ![r] = Begin(Completed(@), "runMutationTests")]
    /\ pc' = [pc EXCEPT ![r] = "mutations"]
    /\ UNCHANGED <<config, TEST_USER, now, pool, locals, calls, errlog, out, exitStatus,
                   returned, testUser, generated, helperCall>>

\* AuthenticateUserFalse without the return: the message is logged and
\* runMutationTests() is called all the same
AuthenticateUserFalse_Continues(r) ==
    /\ pc[r] = "authenticate"
    /\ steps' = [steps EXCEPT ![r] = Begin(Completed(@), "runMutationTests")]
    /\ out' = [out EXCEPT ![r] =
          Append(@, <<"Cannot run authenticated tests without authentication">>)]
    /\ pc' = [pc EXCEPT ![r] = "mutations"]
    /\ UNCHANGED <<config, TEST_USER, now, pool, locals, calls, errlog, exitStatus,
                   returned, testUser, generated, helperCall>>

\* authenticateUser() resolved to false; runAllTests logs and returns
AuthenticateUserFalse(r) ==
    /\ pc[r] = "authenticate"
    /\ steps' = [steps EXCEPT ![r] = Completed(@)]
    /\ out' = [out EXCEPT ![r] =
          Append(@, <<"Cannot run authenticated tests without authentication">>)]
    /\ pc' = [pc EXCEPT ![r] = "finished"]
    /\ UNCHANGED <<config, TEST_USER, now, pool, locals, calls, errlog, exitStatus,
                   returned, testUser, generated, helperCall>>

\* runMutationTests() resolved; runStorageTests() is called
MutationTestsDone(r) ==
    /\ pc[r] = "mutations"
    /\ steps' = [steps EXCEPT ![r] = Begin(Completed(@), "runStorageTests")]
    /\ pc' = [pc EXCEPT ![r] = "storage"]
    /\ UNCHANGED <<config, TEST_USER, now, pool, locals, calls, errlog, out, exitStatus,
                   returned, testUser, generated, helperCall>>

\* runStorageTests() resolved; signOutUser() is called
StorageTestsDone(r) ==
    /\ pc[r] = "storage"
    /\ steps' = [steps EXCEPT ![r] = Begin(Completed(@), "signOutUser")]
    /\ pc' = [pc EXCEPT ![r] = "signOut"]
    /\ UNCHANGED <<config, TEST_USER, now, pool, locals, calls, errlog, out, exitStatus,
                   returned, testUser, generated, helperCall>>

\* signOutUser() resolved; printSummary() is called and runAllTests returns
SignOutUserDone(r) ==
    /\ pc[r] = "signOut"
    /\ steps' = [steps EXCEPT ![r] = Called(Completed(@), "printSummary")]
    /\ pc' = [pc EXCEPT ![r] = "finished"]
    /\ UNCHANGED <<config, TEST_USER, now, pool, locals, calls, errlog, out, exitStatus,
                   returned, testUser, generated, helperCall>>

Next ==
    \/ Tick
    \/ \E r \in Runs : CreateTestUser(r)
    \/ \E r \in Runs : SignUpSucceeds(r)
    \/ \E r \in Runs, error \in {ErrUsernameExists, ErrTooManyRequests} :
          SignUpFails(r, error)
    \/ \E r \in Runs : ConfirmSucceeds(r)
    \/ \E r \in Runs, error \in ConfirmErrors : ConfirmFails(r, error)
    \/ \E r \in Runs : StartTests(r)

\* concurrent runs, each followed up to the start of its tests
Spec == Init /\ [][Next]_vars

\* the provider settles the pending call of run r, one way or the other
ProviderSettles(r) ==
    \/ SignUpSucceeds(r)
    \/ \E error \in {ErrUsernameExists, ErrTooManyRequests} : SignUpFails(r, error)
    \/ ConfirmSucceeds(r)
    \/ \E error \in ConfirmErrors : ConfirmFails(r, error)


(***************************************************************************)
(* One run of the whole script: runAllTests from its first line to its     *)
(* return or to process.exit.                                              *)
(***************************************************************************)
ScriptRuns == {1}

NextScript ==
    \/ Tick
    \/ \E r \in ScriptRuns : CreateTestUser(r)
    \/ \E r \in ScriptRuns : SignUpSucceeds(r)
    \/ \E r \in ScriptRuns, error \in {ErrUsernameExists, ErrTooManyRequests} :
          SignUpFails(r, error)
    \/ \E r \in ScriptRuns : ConfirmSucceeds(r)
    \/ \E r \in ScriptRuns, error \in ConfirmErrors : ConfirmFails(r, error)
    \/ \E r \in ScriptRuns : StartTests(r)
    \/ \E r \in ScriptRuns : PublicQueryTestsDone(r)
    \/ \E r \in ScriptRuns : AuthenticateUserTrue(r)
    \/ \E r \in ScriptRuns : AuthenticateUserFalse(r)
    \/ \E r \in ScriptRuns : MutationTestsDone(r)
    \/ \E r \in ScriptRuns : StorageTestsDone(r)
    \/ \E r \in ScriptRuns : SignOutUserDone(r)

SpecScript == Init /\ [][NextScript]_vars

\* the run takes a step of createTestUser: it is started, or resumed when its
\* pending call settles
Progress == \E r \in ScriptRuns : CreateTestUser(r) \/ ProviderSettles(r)

\* SpecScript for a script that is run and whose provider calls all complete:
\* as long as createTestUser can take a step, it does
SpecScriptLive == SpecScript /\ WF_vars(Progress)

(***************************************************************************)
(* The property test's loop: generateUsername() called MaxCalls times in   *)
(* one process while the clock runs.                                       *)
(***************************************************************************)
CallGenerateUsername ==
    /\ Len(generated) < MaxCalls
    /\ \E randomHex \in UsernameRandomBytes :
          generated' = Append(generated, generateUsername(now, randomHex))
    /\ UNCHANGED <<config, TEST_USER, now, pool, pc, locals, calls, errlog, out,
                   exitStatus, returned, testUser, steps, helperCall>>

NextGen == Tick \/ CallGenerateUsername

SpecGen == Init /\ [][NextGen]_vars

(***************************************************************************)
(* The credential helpers called directly, as the property tests call      *)
(* them: one call per behaviour, its arguments (and the values the clock   *)
(* and the random source supply) drawn from the sets below.                *)
(***************************************************************************)
\* largest value of a Uint8Array element
ByteMax == 255
\* new Uint8Array(2) in generateUsername
UsernameRandomLength == 2
\* new Uint8Array(8) in generatePassword
PasswordRandomLength == 8

Bytes == 0..ByteMax

\* random arrays of generatePassword: every byte value at every position
HelperPasswordBytes ==
    { [i \in 1..PasswordRandomLength |-> IF i = k THEN b ELSE base] :
        k \in 1..PasswordRandomLength, b \in Bytes, base \in {0, ByteMax} }

\* random arrays of generateUsername: every byte value at every position
HelperUsernameBytes ==
    { [i \in 1..UsernameRandomLength |-> IF i = k THEN b ELSE base] :
        k \in 1..UsernameRandomLength, b \in Bytes, base \in {0, 15, 16, ByteMax} }

\* values of Date.now()
HelperTimestamps == {0, 9, 10, 99, 100, 1719432}

\* characters of the tokens passed to generateEmail
TokenChars == {"a", "7", "-", "@", "\n"}

RECURSIVE StringsUpTo(_, _)
StringsUpTo(chars, n) ==
    IF n = 0 THEN {<<>>}
    ELSE LET shorter == StringsUpTo(chars, n - 1)
         IN  shorter \cup { Append(str, c) : str \in shorter, c \in chars }

\* tokens passed to generateEmail, the empty one included
HelperTokens == StringsUpTo(TokenChars, MaxTokenLen)

HelperCalls ==
    { [fn |-> "generatePassword", args |-> <<randomBytes>>, outcome |-> <<>>] :
        randomBytes \in HelperPasswordBytes }
    \cup
    { [fn |-> "generateEmail", args |-> <<uniqueId>>, outcome |-> <<>>] :
        uniqueId \in HelperTokens }
    \cup
    { [fn |-> "generateUsername", args |-> <<timestamp, randomHex>>, outcome |-> <<>>] :
        timestamp \in HelperTimestamps, randomHex \in HelperUsernameBytes }

InitHelpers ==
    /\ config = ConfiguredValue
    /\ now = 0
    /\ pool = <<>>
    /\ pc = [r \in Runs |-> "start"]
    /\ locals = [r \in Runs |-> NoLocals]
    /\ calls = [r \in Runs |-> <<>>]
    /\ errlog = [r \in Runs |-> <<>>]
    /\ out = [r \in Runs |-> <<>>]
    /\ exitStatus = [r \in Runs |-> <<>>]
    /\ returned = [r \in Runs |-> <<>>]
    /\ testUser = [r \in Runs |-> <<>>]
    /\ generated = <<>>
    /\ steps = [r \in Runs |-> <<>>]
    /\ helperCall \in HelperCalls
    /\ TEST_USER = PlaceholderUser

\* the call returned the value
Returns(value) == <<[threw |-> FALSE, value |-> value]>>

\* the call threw
Throws == <<[threw |-> TRUE, value |-> <<>>]>>

\* generatePassword() runs to its return
HelperGeneratePassword ==
    /\ helperCall.fn = "generatePassword"
    /\ helperCall.outcome = <<>>
    /\ helperCall' = [helperCall EXCEPT
          !.outcome = Returns(generatePassword(helperCall.args[1]))]
    /\ UNCHANGED <<config, TEST_USER, now, pool, pc, locals, calls, errlog, out,
                   exitStatus, returned, testUser, generated, steps>>

\* HelperGenerateEmail with a guard that throws on the empty token
HelperGenerateEmail_RejectsEmpty ==
    /\ helperCall.fn = "generateEmail"
    /\ helperCall.outcome = <<>>
    /\ helperCall' = [helperCall EXCEPT
          !.outcome = IF helperCall.args[1] = <<>> THEN Throws
                      ELSE Returns(generateEmail(helperCall.args[1]))]
    /\ UNCHANGED <<config, TEST_USER, now, pool, pc, locals, calls, errlog, out,
                   exitStatus, returned, testUser, generated, steps>>

\* generateEmail(uniqueId) runs to its return: a template literal over a
\* string, which has no failing case
HelperGenerateEmail ==
    /\ helperCall.fn = "generateEmail"
    /\ helperCall.outcome = <<>>
    /\ helperCall' = [helperCall EXCEPT
          !.outcome = Returns(generateEmail(helperCall.args[1]))]
    /\ UNCHANGED <<config, TEST_USER, now, pool, pc, locals, calls, errlog, out,
                   exitStatus, returned, testUser, generated, steps>>

\* generateUsername() runs to its return
HelperGenerateUsername ==
    /\ helperCall.fn = "generateUsername"
    /\ helperCall.outcome = <<>>
    /\ helperCall' = [helperCall EXCEPT
          !.outcome = Returns(generateUsername(helperCall.args[1], helperCall.args[2]))]
    /\ UNCHANGED <<config, TEST_USER, now, pool, pc, locals, calls, errlog, out,
                   exitStatus, returned, testUser, generated, steps>>

NextHelpers ==
    \/ HelperGeneratePassword
    \/ HelperGenerateEmail
    \/ HelperGenerateUsername

SpecHelpers == InitHelpers /\ [][NextHelpers]_vars

(***************************************************************************)
(* The Gen2 script: the credentials are the constant TEST_USER, which the   *)
(* operator is told to edit before running; the rest of runAllTests is the  *)
(* code of the Gen1 script.                                                 *)
(***************************************************************************)
\* usernames TEST_USER may hold: the source's placeholder, and edited values
Gen2Usernames ==
    {"YOUR_USERNAME_HERE", "your_username_here", "YOUR_USERNAME_HERE ",
     "testuser@example.com", ""}

\* passwords TEST_USER may hold: the source's placeholder, and edited values
Gen2Passwords ==
    {"YOUR_PASSWORD_HERE", "YOUR_USERNAME_HERE", "TestPassword123!", ""}

InitGen2 ==
    /\ config = ConfiguredValue
    /\ now = 0
    /\ pool = <<>>
    /\ pc = [r \in Runs |-> "start"]
    /\ locals = [r \in Runs |-> NoLocals]
    /\ calls = [r \in Runs |-> <<>>]
    /\ errlog = [r \in Runs |-> <<>>]
    /\ out = [r \in Runs |-> <<>>]
    /\ exitStatus = [r \in Runs |-> <<>>]
    /\ returned = [r \in Runs |-> <<>>]
    /\ testUser = [r \in Runs |-> <<>>]
    /\ generated = <<>>
    /\ steps = [r \in Runs |-> <<>>]
    /\ helperCall = NoHelperCall
    /\ TEST_USER \in [username : Gen2Usernames, password : Gen2Passwords]

\* Gen2RunAllTests without the check of the credentials
Gen2RunAllTests_NoCheck(r) ==
    /\ pc[r] = "start"
    /\ out' = [out EXCEPT ![r] = Append(@, <<"Starting Gen2 Test Script">>)]
    /\ testUser' = [testUser EXCEPT ![r] = Append(@, TEST_USER)]
    /\ steps' = [steps EXCEPT ![r] =
          Begin(Called(Called(Called(@, "createTestRunner"),
                              "createTestFunctions"),
                       "createTestOrchestrator"),
                "runPublicQueryTests")]
    /\ pc' = [pc EXCEPT ![r] = "publicQueries"]
    /\ UNCHANGED <<config, TEST_USER, now, pool, locals, calls, errlog,
                   exitStatus, returned, generated, helperCall>>

\* the Gen2 runAllTests up to its first await: with the placeholder username
\* it logs the request to update TEST_USER and returns; otherwise TEST_USER
\* is passed to createTestFunctions and the public query tests begin
Gen2RunAllTests(r) ==
    /\ pc[r] = "start"
    /\ IF TEST_USER.username = "YOUR_USERNAME_HERE"
       THEN /\ out' = [out EXCEPT ![r] =
                  @ \o << <<"Starting Gen2 Test Script">>,
                          <<"Please update TEST_USER credentials before running!">> >>]
            /\ pc' = [pc EXCEPT ![r] = "finished"]
            /\ UNCHANGED <<testUser, steps>>
       ELSE /\ out' = [out EXCEPT ![r] = Append(@, <<"Starting Gen2 Test Script">>)]
            /\ testUser' = [testUser EXCEPT ![r] = Append(@, TEST_USER)]
            /\ steps' = [steps EXCEPT ![r] =
                  Begin(Called(Called(Called(@, "createTestRunner"),
                                      "createTestFunctions"),
                               "createTestOrchestrator"),
                        "runPublicQueryTests")]
            /\ pc' = [pc EXCEPT ![r] = "publicQueries"]
    /\ UNCHANGED <<config, TEST_USER, now, pool, locals, calls, errlog,
                   exitStatus, returned, generated, helperCall>>

NextGen2 ==
    \/ \E r \in ScriptRuns : Gen2RunAllTests(r)
    \/ \E r \in ScriptRuns : PublicQueryTestsDone(r)
    \/ \E r \in ScriptRuns : AuthenticateUserTrue(r)
    \/ \E r \in ScriptRuns : AuthenticateUserFalse(r)
    \/ \E r \in ScriptRuns : MutationTestsDone(r)
    \/ \E r \in ScriptRuns : StorageTestsDone(r)
    \/ \E r \in ScriptRuns : SignOutUserDone(r)

\* one run of the Gen2 script
SpecGen2 == InitGen2 /\ [][NextGen2]_vars

(***************************************************************************)
(* Properties.                                                             *)
(***************************************************************************)
\* the calls of run r to the given provider operation
CallsOf(r, op) == { i \in 1..Len(calls[r]) : calls[r][i].op = op }

\* run r has left the "start" position, i.e. createTestUser ran its validation
Validated(r) == pc[r] # "start"

\* C1: when aws_user_pools_id is missing or the empty string, a run that has
\* executed createTestUser has logged exactly the pool-identifier message,
\* has called process.exit(1), and has sent no call to the identity provider.
C1_MissingUserPoolId ==
    \A r \in Runs :
        ( /\ Falsy(ConfigValue(config, "aws_user_pools_id"))
          /\ Validated(r) )
        => /\ errlog[r] = << <<MsgMissingUserPoolId>> >>
           /\ exitStatus[r] = <<1>>
           /\ pc[r] = "exited"
           /\ calls[r] = <<>>
           /\ pool = <<>>

\* a run has terminated on a configuration whose pool identifier is ""
C1_Witness ==
    \E r \in Runs :
        /\ ConfigValue(config, "aws_user_pools_id") = ""
        /\ pc[r] = "exited"
        /\ exitStatus[r] = <<1>>

\* C2: when aws_user_pools_id is present and non-empty but
\* aws_user_pools_web_client_id is missing or the empty string, a run that has
\* executed createTestUser has logged exactly the client-identifier message,
\* has called process.exit(1), and has sent no call to the identity provider.
C2_MissingClientId ==
    \A r \in Runs :
        ( /\ ~Falsy(ConfigValue(config, "aws_user_pools_id"))
          /\ Falsy(ConfigValue(config, "aws_user_pools_web_client_id"))
          /\ Validated(r) )
        => /\ errlog[r] = << <<MsgMissingClientId>> >>
           /\ exitStatus[r] = <<1>>
           /\ pc[r] = "exited"
           /\ calls[r] = <<>>
           /\ pool = <<>>

\* a run has terminated on a configuration that has a pool identifier and no
\* client identifier key
C2_Witness ==
    \E r \in Runs :
        /\ ~Falsy(ConfigValue(config, "aws_user_pools_id"))
        /\ ConfigValue(config, "aws_user_pools_web_client_id") = Undefined
        /\ pc[r] = "exited"
        /\ exitStatus[r] = <<1>>

\* C3: when the SignUp call of a run has been rejected, the run has logged
\* exactly the failure marker followed by the provider's error message, has
\* called process.exit(1), has sent no AdminConfirmSignUp, and createTestUser
\* has returned nothing (so nothing reached createTestFunctions either).
C3_SignUpFailure ==
    \A r \in Runs :
        \A i \in CallsOf(r, "SignUp") :
            calls[r][i].status = "failed"
            => /\ errlog[r] = << <<MsgFailedToCreate, calls[r][i].error.message>> >>
               /\ exitStatus[r] = <<1>>
               /\ pc[r] = "exited"
               /\ CallsOf(r, "AdminConfirmSignUp") = {}
               /\ returned[r] = <<>>
               /\ testUser[r] = <<>>

\* a run whose SignUp was rejected has terminated
C3_Witness ==
    \E r \in Runs :
        /\ ConfigError(config) = <<>>
        /\ \E i \in CallsOf(r, "SignUp") :
              /\ calls[r][i].status = "failed"
              /\ calls[r][i].error = ErrTooManyRequests
        /\ pc[r] = "exited"

\* C4: when the SignUp call of a run resolved and its AdminConfirmSignUp call
\* has been rejected, the run has logged exactly the failure marker followed
\* by the provider's error message, has called process.exit(1), and
\* createTestUser has returned nothing.
C4_ConfirmFailure ==
    \A r \in Runs :
        \A i \in CallsOf(r, "AdminConfirmSignUp") :
            calls[r][i].status = "failed"
            => /\ \E j \in CallsOf(r, "SignUp") : j < i /\ calls[r][j].status = "ok"
               /\ errlog[r] = << <<MsgFailedToCreate, calls[r][i].error.message>> >>
               /\ exitStatus[r] = <<1>>
               /\ pc[r] = "exited"
               /\ returned[r] = <<>>
               /\ testUser[r] = <<>>

\* a run whose SignUp resolved and whose AdminConfirmSignUp was rejected has
\* terminated
C4_Witness ==
    \E r \in Runs :
        /\ \E j \in CallsOf(r, "SignUp") : calls[r][j].status = "ok"
        /\ \E i \in CallsOf(r, "AdminConfirmSignUp") :
              /\ calls[r][i].status = "failed"
              /\ calls[r][i].error = ErrCannotConfirm
        /\ pc[r] = "exited"

\* the characters of a string
Chars(str) == { str[i] : i \in 1..Len(str) }

\* characters the regular expression's . does not match (of the ASCII range)
LineTerminators == {"\n", "\r"}

\* str matches ^ci-test-.+@test\.example\.com$
IsCiTestEmail(str) ==
    /\ Len(str) > Len(CiTestPrefix) + Len(EmailDomain)
    /\ MatchesAt(str, CiTestPrefix, 1)
    /\ MatchesAt(str, EmailDomain, Len(str) - Len(EmailDomain) + 1)
    /\ \A i \in (Len(CiTestPrefix) + 1)..(Len(str) - Len(EmailDomain)) :
          str[i] \notin LineTerminators

\* the group captured by ^ci-test-(.+)@test\.example\.com$ in a string that
\* matches it
CapturedToken(str) ==
    SubSeq(str, Len(CiTestPrefix) + 1, Len(str) - Len(EmailDomain))

\* the password policy: length >= 8, an uppercase letter, a lowercase letter,
\* a digit and a non-alphanumeric character
SatisfiesPasswordPolicy(str) ==
    /\ Len(str) >= 8
    /\ Chars(str) \cap Chars(UpperCase) # {}
    /\ Chars(str) \cap Chars(LowerCase) # {}
    /\ Chars(str) \cap Chars(DecimalDigits) # {}
    /\ Chars(str) \ Chars(alphanumeric) # {}

C6_StepOrder ==
    \A r \in Runs :
        /\ calls[r] # <<>> => ( ConfigError(config) = <<>> /\ calls[r][1].op = "SignUp" )
        /\ \A i \in CallsOf(r, "AdminConfirmSignUp") :
              /\ i > 1
              /\ calls[r][i - 1].op = "SignUp"
              /\ calls[r][i - 1].status = "ok"
        /\ Cardinality({ i \in 1..Len(calls[r]) : calls[r][i].status = "pending" }) <= 1
        /\ returned[r] # <<>> =>
              \E i \in CallsOf(r, "AdminConfirmSignUp") : calls[r][i].status = "ok"

\* AdminConfirmSignUp is pending in a run whose SignUp resolved
C6_Witness ==
    \E r \in Runs :
        /\ pc[r] = "awaitConfirm"
        /\ Len(calls[r]) = 2
        /\ calls[r][1].status = "ok"
        /\ calls[r][2].status = "pending"

\* C7: no retries: a run sends SignUp at most once and AdminConfirmSignUp at
\* most once, and a rejected call is the last call the run ever sent.
C7_NoRetries ==
    \A r \in Runs :
        /\ Cardinality(CallsOf(r, "SignUp")) <= 1
        /\ Cardinality(CallsOf(r, "AdminConfirmSignUp")) <= 1
        /\ \A i \in 1..Len(calls[r]) :
              calls[r][i].status = "failed" => i = Len(calls[r])

\* a run has terminated after its AdminConfirmSignUp was rejected, while
\* another run still has a call pending
C7_Witness ==
    \E r \in Runs :
        /\ pc[r] = "exited"
        /\ Len(calls[r]) = 2
        /\ calls[r][2].status = "failed"
        /\ \E q \in Runs \ {r} : pc[q] = "awaitSignUp"

C9_PairwiseDistinct ==
    \A i, j \in 1..Len(generated) :
        i # j => generated[i] # generated[j]

\* C10: concurrent runs operate on disjoint identities: no two runs send the
\* same Username to SignUp, and no SignUp is rejected because the username is
\* already registered.
C10_DisjointIdentities ==
    \A r, q \in Runs :
        \A i \in CallsOf(r, "SignUp") :
            /\ calls[r][i].error # ErrUsernameExists
            /\ \A j \in CallsOf(q, "SignUp") :
                  r # q => calls[r][i].input.Username # calls[q][j].input.Username

\* the direct call of helper fn has returned or thrown
HelperDone(fn) == helperCall.fn = fn /\ helperCall.outcome # <<>>

\* C11: for every value of the random bytes, generatePassword returns a
\* password of length at least 8 that has an uppercase letter, a lowercase
\* letter, a digit and a non-alphanumeric character.
C11_PasswordPolicy ==
    HelperDone("generatePassword")
    => /\ ~helperCall.outcome[1].threw
       /\ SatisfiesPasswordPolicy(helperCall.outcome[1].value)

\* generatePassword has returned for random bytes that include the largest
\* byte value and a byte that selects a digit
C11_Witness ==
    /\ HelperDone("generatePassword")
    /\ \E i, j \in 1..PasswordRandomLength :
          /\ helperCall.args[1][i] = ByteMax
          /\ helperCall.args[1][j] = 61

\* C12 as stated: for every non-empty token, generateEmail(token) matches
\* ^ci-test-.+@test\.example\.com$ and the component between the fixed prefix
\* and the fixed suffix is the token.
C12_MatchesForEveryToken ==
    ( HelperDone("generateEmail") /\ helperCall.args[1] # <<>> )
    => /\ ~helperCall.outcome[1].threw
       /\ IsCiTestEmail(helperCall.outcome[1].value)
       /\ CapturedToken(helperCall.outcome[1].value) = helperCall.args[1]

\* C12 (amended): for every non-empty token, generateEmail(token) is exactly
\* 'ci-test-' followed by the token followed by '@test.example.com', so the
\* component between the fixed prefix and the fixed suffix is the token; it
\* matches ^ci-test-.+@test\.example\.com$ exactly when the token holds no
\* line terminator.
C12_EmailFormat ==
    ( HelperDone("generateEmail") /\ helperCall.args[1] # <<>> )
    => /\ ~helperCall.outcome[1].threw
       /\ helperCall.outcome[1].value
             = CiTestPrefix \o helperCall.args[1] \o EmailDomain
       /\ CapturedToken(helperCall.outcome[1].value) = helperCall.args[1]
       /\ IsCiTestEmail(helperCall.outcome[1].value)
             <=> (Chars(helperCall.args[1]) \cap LineTerminators = {})

\* generateEmail has returned for a token of the greatest length that holds
\* an '@' and no line terminator
C12_Witness ==
    /\ HelperDone("generateEmail")
    /\ Len(helperCall.args[1]) = MaxTokenLen
    /\ "@" \in Chars(helperCall.args[1])
    /\ Chars(helperCall.args[1]) \cap LineTerminators = {}
    /\ IsCiTestEmail(helperCall.outcome[1].value)

\* C13 as stated: generateEmail fails exactly when the token is empty.
C13_FailsOnlyOnEmptyToken ==
    HelperDone("generateEmail")
    => (helperCall.outcome[1].threw <=> helperCall.args[1] = <<>>)

\* C13 (amended): generateEmail never fails: it returns an address for every
\* token, and for the empty token it returns 'ci-test-@test.example.com',
\* which does not match ^ci-test-.+@test\.example\.com$.
C13_NeverFails ==
    HelperDone("generateEmail")
    => /\ ~helperCall.outcome[1].threw
       /\ helperCall.args[1] = <<>>
             => /\ helperCall.outcome[1].value = CiTestPrefix \o EmailDomain
                /\ ~IsCiTestEmail(helperCall.outcome[1].value)

\* generateEmail has returned for the empty token
C13_Witness ==
    /\ HelperDone("generateEmail")
    /\ helperCall.args[1] = <<>>
    /\ ~helperCall.outcome[1].threw

\* C14: when aws_user_pools_id and aws_user_pools_web_client_id are present
\* and non-empty and aws_cognito_region is missing or the empty string, a run
\* that has executed createTestUser has logged exactly the message naming
\* aws_cognito_region and has called process.exit(1); it generated no
\* credentials, did not reach the creation of the provider client (nothing
\* after the start banner was logged) and sent no call.
C14_MissingRegion ==
    \A r \in Runs :
        ( /\ ~Falsy(ConfigValue(config, "aws_user_pools_id"))
          /\ ~Falsy(ConfigValue(config, "aws_user_pools_web_client_id"))
          /\ Falsy(ConfigValue(config, "aws_cognito_region"))
          /\ Validated(r) )
        => /\ errlog[r] = << <<MsgMissingRegion>> >>
           /\ exitStatus[r] = <<1>>
           /\ pc[r] = "exited"
           /\ locals[r] = NoLocals
           /\ out[r] = << <<"Starting Gen1 Test Script">> >>
           /\ calls[r] = <<>>
           /\ pool = <<>>

\* a run has terminated on a configuration whose only defect is an empty
\* region
C14_Witness ==
    \E r \in Runs :
        /\ ~Falsy(ConfigValue(config, "aws_user_pools_id"))
        /\ ~Falsy(ConfigValue(config, "aws_user_pools_web_client_id"))
        /\ ConfigValue(config, "aws_cognito_region") = ""
        /\ pc[r] = "exited"
        /\ exitStatus[r] = <<1>>

\* createTestUser of run r returned the credential set
EndedByReturn(r) == Len(returned[r]) = 1 /\ exitStatus[r] = <<>>

\* run r was terminated with status 1 after an error was logged
EndedByExit1(r) ==
    /\ exitStatus[r] = <<1>>
    /\ returned[r] = <<>>
    /\ Len(errlog[r]) = 1

\* C15: when every provider call completes, createTestUser of a run of the
\* script eventually ends, either by returning the credential set or by
\* process.exit(1) after a logged validation or provider error; never both,
\* and no other exit status is ever used.
C15_EndsInOneOutcome ==
    /\ <>(\A r \in ScriptRuns : EndedByReturn(r) \/ EndedByExit1(r))
    /\ [](\A r \in ScriptRuns :
             /\ \A i \in 1..Len(exitStatus[r]) : exitStatus[r][i] = 1
             /\ ~(EndedByReturn(r) /\ EndedByExit1(r))
             /\ (returned[r] # <<>> \/ exitStatus[r] # <<>>)
                   => (EndedByReturn(r) \/ EndedByExit1(r)))

\* the run was terminated with status 1 after both provider calls completed,
\* the second with an error
C15_Witness ==
    \E r \in ScriptRuns :
        /\ EndedByExit1(r)
        /\ Len(calls[r]) = 2
        /\ calls[r][1].status = "ok"
        /\ calls[r][2].status = "failed"

\* C16: when AdminConfirmSignUp fails after a successful SignUp, no further
\* provider call is made before the process exits, and the user stays in the
\* pool as SignUp left it: registered and unconfirmed.
C16_UnconfirmedUserLeftBehind ==
    \A r \in Runs :
        (Len(calls[r]) >= 2 /\ calls[r][2].status = "failed") =>
            /\ Len(calls[r]) = 2
            /\ calls[r][1].op = "SignUp"
            /\ calls[r][1].status = "ok"
            /\ calls[r][2].op = "AdminConfirmSignUp"
            /\ calls[r][1].input.Username \in DOMAIN pool
            /\ pool[calls[r][1].input.Username] = "UNCONFIRMED"
            /\ exitStatus[r] = <<1>>

\* a run exited after its AdminConfirmSignUp was rejected, while another run
\* went on using the provider
C16_Witness ==
    \E r, q \in Runs :
        /\ r # q
        /\ Len(calls[r]) = 2
        /\ calls[r][2].status = "failed"
        /\ pc[r] = "exited"
        /\ calls[q] # <<>>

\* C17: the test flow gets credentials, and any test-utility call is made,
\* only after createTestUser returned, which it does only when SignUp and
\* AdminConfirmSignUp both succeeded, so the user handed over is confirmed;
\* a run that exited on a provisioning failure made no test-utility call.
C17_TestsOnlyForConfirmedUser ==
    \A r \in Runs :
        /\ (testUser[r] # <<>> \/ steps[r] # <<>>) =>
              /\ Len(returned[r]) = 1
              /\ testUser[r] = returned[r]
              /\ steps[r] # <<>>
              /\ exitStatus[r] = <<>>
              /\ Len(calls[r]) = 2
              /\ calls[r][1].op = "SignUp"
              /\ calls[r][1].status = "ok"
              /\ calls[r][2].op = "AdminConfirmSignUp"
              /\ calls[r][2].status = "ok"
              /\ testUser[r][1].username = calls[r][1].input.Username
              /\ testUser[r][1].username \in DOMAIN pool
              /\ pool[testUser[r][1].username] = "CONFIRMED"
        /\ exitStatus[r] # <<>> => (testUser[r] = <<>> /\ steps[r] = <<>>)

\* the script has called createTestFunctions with the credentials and has
\* started authenticateUser
C17_Witness ==
    \E r \in ScriptRuns :
        /\ Len(testUser[r]) = 1
        /\ \E i \in 1..Len(steps[r]) : steps[r][i].step = "createTestFunctions"
        /\ \E i \in 1..Len(steps[r]) : steps[r][i].step = "authenticateUser"

\* the order in which a complete run of the script calls the test utilities
ExecutionOrder ==
    << "createTestRunner", "createTestFunctions", "createTestOrchestrator",
       "runPublicQueryTests", "authenticateUser", "runMutationTests",
       "runStorageTests", "signOutUser", "printSummary" >>

\* C18: runAllTests provisions the user first, then runs the public query
\* tests, authentication, the mutation tests, the storage tests, signOutUser
\* and printSummary in this order, each step started only when the one
\* before it has completed.
C18_ExecutionOrder ==
    \A r \in Runs :
        /\ Len(steps[r]) <= Len(ExecutionOrder)
        /\ \A i \in 1..Len(steps[r]) : steps[r][i].step = ExecutionOrder[i]
        /\ \A i \in 1..(Len(steps[r]) - 1) : steps[r][i].status = "done"
        /\ steps[r] # <<>> =>
              /\ Len(returned[r]) = 1
              /\ \A i \in 1..Len(calls[r]) : calls[r][i].status = "ok"

\* the script ran to printSummary
C18_Witness ==
    \E r \in ScriptRuns :
        /\ Len(steps[r]) = Len(ExecutionOrder)
        /\ steps[r][Len(steps[r])].step = "printSummary"
        /\ pc[r] = "finished"

\* C19: the email a run provisions is the username generateUsername returned
\* followed by '@test.example.com' (the token given to generateEmail is that
\* username without its leading 'ci-test-'), and the password is an output of
\* generatePassword, which does not take the token.
C19_EmailSharesUsernameToken ==
    \A r \in Runs :
        calls[r] # <<>> =>
            /\ \E timestamp \in 0..now, randomHex \in UsernameRandomBytes :
                  /\ CiTestPrefix \o locals[r].uniqueId
                        = generateUsername(timestamp, randomHex)
                  /\ locals[r].email
                        = generateUsername(timestamp, randomHex) \o EmailDomain
            /\ calls[r][1].input.Username = locals[r].email
            /\ \E randomBytes \in PasswordRandomBytes :
                  /\ locals[r].password = generatePassword(randomBytes)
                  /\ calls[r][1].input.Password = locals[r].password

\* two runs provision with the same token and different passwords, and the
\* token is the username without its prefix
C19_Witness ==
    \E r, q \in Runs :
        /\ calls[r] # <<>>
        /\ calls[q] # <<>>
        /\ locals[r].uniqueId = locals[q].uniqueId
        /\ locals[r].password # locals[q].password
        /\ Len(locals[r].uniqueId) > 0
        /\ ~MatchesAt(locals[r].uniqueId, CiTestPrefix, 1)

\* the value of a digit character in the given digit sequence
DigitValue(digits, c) == (CHOOSE k \in 1..Len(digits) : digits[k] = c) - 1

\* str is a non-empty string over the given digits
IsNumeral(digits, str) ==
    /\ str # <<>>
    /\ \A i \in 1..Len(str) : \E k \in 1..Len(digits) : digits[k] = str[i]

\* the number a numeral denotes in the base of its digit sequence
RECURSIVE NumeralValue(_, _)
NumeralValue(digits, str) ==
    IF str = <<>> THEN 0
    ELSE NumeralValue(digits, SubSeq(str, 1, Len(str) - 1)) * Len(digits)
           + DigitValue(digits, str[Len(str)])

\* C20: generateUsername returns 'ci-test-', the decimal numeral of the clock
\* value, '-', and exactly four lowercase hexadecimal characters, two for
\* each random byte in order; the result is never empty.
C20_UsernameFormat ==
    HelperDone("generateUsername") =>
        LET username   == helperCall.outcome[1].value
            timestamp  == helperCall.args[1]
            randomHex  == helperCall.args[2]
            n          == Len(username)
            numeral    == SubSeq(username, Len(CiTestPrefix) + 1, n - 5)
            hex        == SubSeq(username, n - 3, n)
        IN  /\ ~helperCall.outcome[1].threw
            /\ username # <<>>
            /\ n >= Len(CiTestPrefix) + 6
            /\ MatchesAt(username, CiTestPrefix, 1)
            /\ IsNumeral(DecimalDigits, numeral)
            /\ (Len(numeral) > 1 => numeral[1] # "0")
            /\ NumeralValue(DecimalDigits, numeral) = timestamp
            /\ username[n - 4] = "-"
            /\ IsNumeral(HexDigits, hex)
            /\ NumeralValue(HexDigits, SubSeq(hex, 1, 2)) = randomHex[1]
            /\ NumeralValue(HexDigits, SubSeq(hex, 3, 4)) = randomHex[2]

\* generateUsername has returned for a clock value of several digits and
\* random bytes of which one needs the zero padding and one does not
C20_Witness ==
    /\ HelperDone("generateUsername")
    /\ helperCall.args[1] >= 100
    /\ \E i, j \in 1..UsernameRandomLength :
          /\ helperCall.args[2][i] < 16
          /\ helperCall.args[2][j] >= 160

\* C21: generatePassword returns 'CiTest1!' followed by exactly 8 characters
\* (16 in all); the i-th of them is the character of the 62-character
\* alphanumeric alphabet at index b mod 62 for the i-th random byte b, an
\* index inside the alphabet for every byte value, so that every suffix
\* character is alphanumeric.
C21_PasswordShape ==
    HelperDone("generatePassword") =>
        LET password    == helperCall.outcome[1].value
            randomBytes == helperCall.args[1]
        IN  /\ ~helperCall.outcome[1].threw
            /\ Len(randomBytes) = 8
            /\ Len(password) = 16
            /\ SubSeq(password, 1, 8) = <<"C", "i", "T", "e", "s", "t", "1", "!">>
            /\ Cardinality(Chars(alphanumeric)) = 62
            /\ Len(alphanumeric) = 62
            /\ \A i \in 1..8 :
                  /\ (randomBytes[i] % 62) + 1 \in DOMAIN alphanumeric
                  /\ password[8 + i] = alphanumeric[(randomBytes[i] % 62) + 1]
                  /\ password[8 + i] \in
                        Chars(UpperCase) \cup Chars(LowerCase) \cup Chars(DecimalDigits)

\* generatePassword has returned for random bytes of which one is past the
\* end of the alphabet and wraps around to its first character
C21_Witness ==
    /\ HelperDone("generatePassword")
    /\ \E i \in 1..PasswordRandomLength :
          /\ helperCall.args[1][i] = 62
          /\ helperCall.outcome[1].value[Len(PasswordPrefix) + i] = "A"

\* the configuration fields in the order in which they are checked, each with
\* the message logged when it is missing
CheckOrder ==
    << [key |-> "aws_user_pools_id", message |-> MsgMissingUserPoolId],
       [key |-> "aws_user_pools_web_client_id", message |-> MsgMissingClientId],
       [key |-> "aws_cognito_region", message |-> MsgMissingRegion] >>

\* the positions of CheckOrder whose field is missing or empty
FailingChecks ==
    { i \in 1..Len(CheckOrder) : Falsy(ConfigValue(config, CheckOrder[i].key)) }

\* C22: a run that failed has logged exactly one error before it terminated;
\* when a configuration field is missing that error is the message of the
\* first missing field in the order pool identifier, client identifier,
\* region, whatever else is missing, and no provider call was made.
C22_FirstFailingCheckOnly ==
    \A r \in Runs :
        /\ exitStatus[r] # <<>> => (Len(errlog[r]) = 1 /\ exitStatus[r] = <<1>>)
        /\ (Validated(r) /\ FailingChecks # {}) =>
              LET first == CHOOSE i \in FailingChecks :
                              \A j \in FailingChecks : i <= j
              IN  /\ errlog[r] = << <<CheckOrder[first].message>> >>
                  /\ exitStatus[r] = <<1>>
                  /\ calls[r] = <<>>
        /\ (Validated(r) /\ FailingChecks = {} /\ exitStatus[r] # <<>>) =>
              /\ calls[r] # <<>>
              /\ errlog[r][1][1] = MsgFailedToCreate

\* a run has terminated on a configuration in which more than one field is
\* missing, the pool identifier and the client identifier among them
C22_Witness ==
    \E r \in Runs :
        /\ {1, 2} \subseteq FailingChecks
        /\ pc[r] = "exited"
        /\ Len(errlog[r]) = 1

\* authenticateUser of run r resolved to false: runAllTests logged that the
\* authenticated tests cannot run
AuthenticationFailed(r) ==
    \E i \in 1..Len(out[r]) :
        out[r][i] = <<"Cannot run authenticated tests without authentication">>

\* the names of the test-utility calls run r has made
StepsCalled(r) == { steps[r][i].step : i \in 1..Len(steps[r]) }

\* C23: once authenticateUser has returned false (after the public query
\* tests ran), runAllTests has returned and stays so: runMutationTests,
\* runStorageTests, signOutUser and printSummary are never called.
C23_NoTestsAfterFailedAuthentication ==
    \A r \in Runs :
        AuthenticationFailed(r) =>
            /\ pc[r] = "finished"
            /\ Len(steps[r]) = 5
            /\ steps[r][4] = [step |-> "runPublicQueryTests", status |-> "done"]
            /\ steps[r][5] = [step |-> "authenticateUser", status |-> "done"]
            /\ StepsCalled(r) \cap {"runMutationTests", "runStorageTests",
                                      "signOutUser", "printSummary"} = {}
            /\ exitStatus[r] = <<>>
            /\ ~ENABLED (\/ AuthenticateUserTrue(r)
                         \/ MutationTestsDone(r)
                         \/ StorageTestsDone(r)
                         \/ SignOutUserDone(r))

\* the script returned after authenticateUser resolved to false
C23_Witness ==
    \E r \in ScriptRuns :
        /\ AuthenticationFailed(r)
        /\ pc[r] = "finished"
        /\ "runPublicQueryTests" \in StepsCalled(r)

\* C24: in the Gen2 script, when TEST_USER.username is the placeholder
\* 'YOUR_USERNAME_HERE', a run of runAllTests has returned without calling
\* createTestRunner or anything after it, and stays so: no public query
\* test, authentication, mutation test, storage test, sign-out or summary.
C24_PlaceholderRunsNothing ==
    \A r \in Runs :
        (TEST_USER.username = "YOUR_USERNAME_HERE" /\ pc[r] # "start") =>
            /\ pc[r] = "finished"
            /\ steps[r] = <<>>
            /\ testUser[r] = <<>>
            /\ calls[r] = <<>>
            /\ exitStatus[r] = <<>>
            /\ ~ENABLED (\/ PublicQueryTestsDone(r)
                         \/ AuthenticateUserTrue(r)
                         \/ AuthenticateUserFalse(r)
                         \/ MutationTestsDone(r)
                         \/ StorageTestsDone(r)
                         \/ SignOutUserDone(r))

\* the Gen2 script returned after asking for the credentials to be updated,
\* its password having been edited
C24_Witness ==
    \E r \in ScriptRuns :
        /\ TEST_USER.username = "YOUR_USERNAME_HERE"
        /\ TEST_USER.password # "YOUR_PASSWORD_HERE"
        /\ pc[r] = "finished"
        /\ \E i \in 1..Len(out[r]) :
              out[r][i] = <<"Please update TEST_USER credentials before running!">>

====
